---- MODULE Spec2Model ----
(***************************************************************************)
(* A model of pprotein's telemetry analyzers.                              *)
(*                                                                         *)
(*  - slowlog.Analyze: one producer task (the slow-log parser) feeding an  *)
(*    event channel, one consumer loop selecting between the next event    *)
(*    and a 30 second timer, then the finalization (sort, truncate).       *)
(*  - httplog.Analyze: the load of the pattern configuration, the fold of   *)
(*    analyzeLog over the lines of an access log, the average pass, the    *)
(*    extraction of the slow requests and the encoding of the result.      *)
(*  - httplog.patternizeURI as a function of a URI and a configuration.    *)
(*  - pprof: Analyze, ConvertToDetailedJSON and GenerateTextReport, from    *)
(*    the parse of the bytes to the return; the report section by section. *)
(*                                                                         *)
(* Times are integers (a fixed unit); an average is kept as the exact      *)
(* quotient of two integers.  Of the non-finite floats the model holds     *)
(* +Inf, which strconv.ParseFloat returns for a numeral out of range.      *)
(***************************************************************************)
EXTENDS Integers, Sequences, FiniteSets, TLC

\* ------------------------------------------------------------------ bounds

\* Longest log whose events are chosen freely.
MaxEvents == 3

\* Buffer of the parser's event channel.
ChanCap == 2

\* Length of the generated long logs (more patterns than the top 20, more
\* slow queries than the top 10).
LongLen == 22

\* Longest access log.
MaxLines == 2

\* Length of the generated long access logs (more slow requests than the
\* top 10).
HttpLongLen == 12

\* Longest URI given to patternizeURI by itself.
MaxUriLen == 4

\* Most matching groups of a configuration given to patternizeURI by itself.
MaxGroups == 2

\* Most samples of a profile whose samples are chosen freely.
MaxSamples == 2

\* Number of functions, and of samples, of the generated long profiles (more
\* than the top 50).
ProfLongLen == 52

\* ------------------------------------------------------- program constants

\* len(topPatterns) > 20
TopPatternsLimit == 20

\* len(topSlowQueries) > 10
TopSlowQueriesLimit == 10

\* float64(^uint64(0) >> 1); the model holds the largest integer TLC has.
MinTimeInit == 2147483647

\* slowRequests[:min(10, len(slowRequests))]
SlowRequestsLimit == 10

\* count >= 50
HotspotLimit == 50

\* i >= 50
PathLimit == 50

VARIABLES
    \* slowlog.Analyze
    logKind,        \* the log file: "free" or one of LongVariants
    threshold,      \* Analyze's threshold argument
    spc,            \* where Analyze is: "setup", "loop", "LOOP_END", "returned"
    ppc,            \* the producer task: "idle", "running", "done"
    sent,           \* events the producer has sent, in order (history)
    eventChan,      \* events in the channel
    chanClosed,     \* the producer closed the channel
    timeout,        \* the timer's channel holds its value
    patternStats,   \* map pattern -> QueryStats
    slowQueries,    \* slice of SlowQuery
    totalQueries,
    totalTime,
    received,       \* events taken from the channel, in order (history)
    exit,           \* which select case left the loop: "none", "closed", "timeout"
    result,         \* <<>> or <<AnalysisResult>>
    err,            \* "nil" or the error returned
    \* httplog.Analyze
    httpKind,       \* the access log: "free" or one of LongVariants
    config,         \* what loadAlpConfig returned: NilConfig or a configuration
    configErr,      \* the error loadAlpConfig returned: "nil", "read", "yaml"
    lines,          \* the access log's lines read so far
    hpc,            \* where Analyze is: "idle", "load", "fold", "avg", "done",
                    \* "extracted", "returned"
    stats,          \* map pattern -> EndpointStats
    slowThreshold,  \* Analyze's slowThreshold argument
    slowRequests,   \* what extractSlowRequests returned
    httpResult,     \* <<>> or <<the result that was encoded>>
    httpErr,        \* "nil" or the error Analyze returned
    \* patternizeURI
    uriIn,          \* the URI
    uriConfig,      \* the configuration
    uriOut,         \* the results of the calls made so far: the pattern of
                    \* uriIn, then the pattern of that pattern
    \* pprof
    profOp,         \* the operation called, one of ProfOps
    profInput,      \* its pprofData argument
    profPc,         \* where it is: "idle", "parse", the operation's name,
                    \* "hotspots", "paths", "resources", "hints", "returned",
                    \* "panic"
    funcCumulative, \* map function ID -> cumulative value
    report,         \* the sections written so far
    profOut,        \* the string returned
    profErr,        \* "nil" or the error returned
    \* mcp: the MySQL tools
    activeConnection,   \* the package variable activeConnection
    connected,      \* the connection information of the last mysql_connect
                    \* that succeeded (history)
    mysqlTool,      \* the tool called last
    mysqlErr,       \* "nil" or the error it returned
    \* libmcp: SSH connections
    sshEnv,         \* the SSH_CONN_ variables of the environment
    sshConnections, \* the package variable sshConnections
    sshOp,          \* the function called last
    sshErr          \* "nil" or the error it returned

slowVars == <<logKind, threshold, spc, ppc, sent, eventChan, chanClosed, timeout,
              patternStats, slowQueries, totalQueries, totalTime, received, exit,
              result, err>>

httpVars == <<httpKind, config, configErr, lines, hpc, stats, slowThreshold,
              slowRequests, httpResult, httpErr>>

uriVars == <<uriIn, uriConfig, uriOut>>

profVars == <<profOp, profInput, profPc, funcCumulative, report, profOut, profErr>>

mysqlVars == <<activeConnection, connected, mysqlTool, mysqlErr>>

sshVars == <<sshEnv, sshConnections, sshOp, sshErr>>

vars == <<slowVars, httpVars, uriVars, profVars, mysqlVars, sshVars>>

outsideSlow == <<httpVars, uriVars, profVars, mysqlVars, sshVars>>

outsideHttp == <<slowVars, uriVars, profVars, mysqlVars, sshVars>>

outsideUri == <<slowVars, httpVars, profVars, mysqlVars, sshVars>>

outsideProf == <<slowVars, httpVars, uriVars, mysqlVars, sshVars>>

outsideMySQL == <<slowVars, httpVars, uriVars, profVars, sshVars>>

outsideSSH == <<slowVars, httpVars, uriVars, profVars, mysqlVars>>

\* ----------------------------------------------------------------- helpers

EmptyMap == [x \in {} |-> 0]

\* m with key k set to v (a Go map assignment).
MapPut(m, k, v) == [x \in (DOMAIN m) \cup {k} |-> IF x = k THEN v ELSE m[x]]

\* The exact quotient a / b.
Ratio(a, b) == [num |-> a, den |-> b]

RatEq(x, y) == x.num * y.den = y.num * x.den

\* Mutant of Truncate: the tail is kept, not the head.
TruncateTail(s, n) == IF Len(s) > n THEN SubSeq(s, Len(s) - n + 1, Len(s)) ELSE s

\* s[:n] when len(s) > n, else s.
Truncate(s, n) == IF Len(s) > n THEN SubSeq(s, 1, n) ELSE s

\* The less function of both sort.Slice calls: descending by one field.
Less(a, b, field) == a[field] > b[field]

\* One step of sort's insertion sort: x moves left past every element it is
\* less than, and stops behind the first one it is not less than.
InsertSorted(s, x, field) ==
    LET stops == {j \in 1..Len(s) : ~Less(x, s[j], field)}
        pos == IF stops = {} THEN 0
               ELSE CHOOSE j \in stops : \A k \in stops : k <= j
    IN SubSeq(s, 1, pos) \o <<x>> \o SubSeq(s, pos + 1, Len(s))

\* The insertion sort that sort runs on a short slice (done is the sorted
\* prefix, bound once so that it is computed once).
InsertionSort(s, field) ==
    LET f[i \in 0..Len(s)] ==
            IF i = 0 THEN <<>>
            ELSE CHOOSE r \in {InsertSorted(done, s[i], field) : done \in {f[i - 1]}} : TRUE
    IN f[Len(s)]

\* sort.Slice(s, less) with less descending by field (the slice is bound
\* once so that it is computed once).
SortSlice(s, field) == CHOOSE r \in {InsertionSort(v, field) : v \in {s}} : TRUE

\* The keys of S in increasing order.
Ascending(S) ==
    [i \in 1..Cardinality(S) |->
        CHOOSE x \in S : Cardinality({y \in S : y < x}) = i - 1]

Reverse(s) == [i \in 1..Len(s) |-> s[Len(s) + 1 - i]]

\* Orders in which a range over a Go map with key set S may visit it: any
\* order for a small map, the two monotone orders for a large one.
MapOrders(S) ==
    IF Cardinality(S) <= 3
    THEN {o \in [1..Cardinality(S) -> S] : \A i, j \in DOMAIN o : i # j => o[i] # o[j]}
    ELSE {Ascending(S), Reverse(Ascending(S))}

\* The sum of one field over the records of s.
SumField(s, field) ==
    LET f[i \in 0..Len(s)] == IF i = 0 THEN 0 ELSE f[i - 1] + s[i][field]
    IN f[Len(s)]

\* --------------------------------------------------------- slowlog: events

\* A nil *log.Event.
NilEvent == [Query |-> 0, QueryTime |-> 0, Ts |-> 0]

QueryTimes == {2, 3}

Thresholds == {2, 3}

\* Queries of the short logs: 1 and 2 differ only in a literal.
FreeQueries == {1, 2, 3}

\* Timestamp of the i-th event of a short log: the log is not in time order.
FreeTs(i) == IF i % 2 = 1 THEN 2 ELSE 1

\* The log.Events a short log may hold at position i, as Analyze reads them:
\* Query, TimeMetrics["Query_time"], Ts.
FreeEvents(i) == [Query : FreeQueries, QueryTime : QueryTimes, Ts : {FreeTs(i)}]

LongVariants == {"asc", "desc", "zig"}

\* Query time of the i-th event of a long log.
LongTime(kind, i) ==
    CASE kind = "asc" -> i
      [] kind = "desc" -> LongLen + 1 - i
      [] OTHER -> ((i * 7) % 5) + 1

\* The i-th event of a long log: every event is a query of its own pattern.
LongEvent(kind, i) ==
    [Query |-> 3 + i, QueryTime |-> LongTime(kind, i), Ts |-> i]

\* Events the parser may send next.
NextEvents ==
    IF logKind = "free"
    THEN IF Len(sent) < MaxEvents THEN FreeEvents(Len(sent) + 1) \cup {NilEvent} ELSE {}
    ELSE IF Len(sent) < LongLen THEN {LongEvent(logKind, Len(sent) + 1)} ELSE {}

\* The parser has reached the end of the log.
AtEndOfLog == logKind = "free" \/ Len(sent) = LongLen

\* query.Fingerprint: queries 1 and 2 share a pattern.
Fingerprint(q) == IF q = 1 THEN 1 ELSE q - 1

\* ------------------------------------------------- slowlog: the fold

\* Mutant of IsSlow: the threshold is not applied.
IsSlowAlways(queryTime, th) == queryTime >= 0 \/ queryTime >= th

\* queryTime >= threshold
IsSlow(queryTime, th) == queryTime >= th

NewSlowQuery(event) ==
    [Time |-> event.Ts, QueryTime |-> event.QueryTime, Query |-> event.Query]

\* &QueryStats{...} for a pattern seen for the first time.
NewStats(event) ==
    [Pattern |-> Fingerprint(event.Query), Count |-> 0, TotalTime |-> 0,
     AvgTime |-> Ratio(0, 1), MaxTime |-> 0, MinTime |-> MinTimeInit,
     Example |-> event.Query, FirstSeen |-> event.Ts, LastSeen |-> event.Ts]

\* Mutant of UpdateStats: MinTime is raised, not lowered.
UpdateStatsMinRaised(s, event) ==
    LET queryTime == event.QueryTime
    IN [s EXCEPT !.Count = @ + 1,
                 !.TotalTime = @ + queryTime,
                 !.LastSeen = event.Ts,
                 !.MaxTime = IF queryTime > @ THEN queryTime ELSE @,
                 !.MinTime = IF queryTime > @ THEN queryTime ELSE @]

\* Mutant of UpdateStats: TotalTime keeps the last query time only.
UpdateStatsTotalOverwritten(s, event) ==
    LET queryTime == event.QueryTime
    IN [s EXCEPT !.Count = @ + 1,
                 !.TotalTime = queryTime,
                 !.LastSeen = event.Ts,
                 !.MaxTime = IF queryTime > @ THEN queryTime ELSE @,
                 !.MinTime = IF queryTime < @ THEN queryTime ELSE @]

\* Mutant of UpdateStats: LastSeen is not moved.
UpdateStatsLastSeenKept(s, event) ==
    LET queryTime == event.QueryTime
    IN [s EXCEPT !.Count = @ + 1,
                 !.TotalTime = @ + queryTime,
                 !.MaxTime = IF queryTime > @ THEN queryTime ELSE @,
                 !.MinTime = IF queryTime < @ THEN queryTime ELSE @]

\* The update of a pattern's statistics with one event.
UpdateStats(s, event) ==
    LET queryTime == event.QueryTime
    IN [s EXCEPT !.Count = @ + 1,
                 !.TotalTime = @ + queryTime,
                 !.LastSeen = event.Ts,
                 !.MaxTime = IF queryTime > @ THEN queryTime ELSE @,
                 !.MinTime = IF queryTime < @ THEN queryTime ELSE @]

\* patternStats after one event was folded in.
FoldStats(ps, event) ==
    LET fp == Fingerprint(event.Query)
        s == IF fp \in DOMAIN ps THEN ps[fp] ELSE NewStats(event)
    IN MapPut(ps, fp, UpdateStats(s, event))

\* slowQueries after one event was folded in.
FoldSlow(sq, event, th) ==
    IF IsSlow(event.QueryTime, th) THEN Append(sq, NewSlowQuery(event)) ELSE sq

\* ------------------------------------------------- slowlog: finalization

\* stat.AvgTime = stat.TotalTime / float64(stat.Count)
WithAverage(s) == [s EXCEPT !.AvgTime = Ratio(s.TotalTime, s.Count)]

\* statsSlice: the patterns with Count > 0, in the order the range visits them.
StatsSlice(ps, order) ==
    LET kept == SelectSeq(order, LAMBDA p : ps[p].Count > 0)
    IN [i \in 1..Len(kept) |-> WithAverage(ps[kept[i]])]

TopPatterns(ps, order) ==
    Truncate(SortSlice(StatsSlice(ps, order), "TotalTime"), TopPatternsLimit)

TopSlowQueries(sq) ==
    Truncate(SortSlice(sq, "QueryTime"), TopSlowQueriesLimit)

AnalysisResult(ps, sq, tq, tt, order) ==
    [TopQueryPatterns |-> TopPatterns(ps, order),
     SlowestQueries |-> TopSlowQueries(sq),
     TotalQueries |-> tq,
     TotalTime |-> tt]

\* ------------------------------------------------- slowlog: the actions

SlowInit ==
    /\ logKind \in {"free"} \cup LongVariants
    /\ threshold \in Thresholds
    /\ spc = "setup"
    /\ ppc = "idle"
    /\ sent = <<>>
    /\ eventChan = <<>>
    /\ chanClosed = FALSE
    /\ timeout = FALSE
    /\ patternStats = EmptyMap
    /\ slowQueries = <<>>
    /\ totalQueries = 0
    /\ totalTime = 0
    /\ received = <<>>
    /\ exit = "none"
    /\ result = <<>>
    /\ err = "nil"

\* The temporary file, up to go parser.Start() and time.After.
Setup ==
    /\ UNCHANGED outsideSlow
    /\ spc = "setup"
    /\ \/ /\ spc' = "returned"
          /\ err' = "tmpfile"
          /\ UNCHANGED ppc
       \/ /\ spc' = "loop"
          /\ ppc' = "running"
          /\ UNCHANGED err
    /\ UNCHANGED <<logKind, threshold, sent, eventChan, chanClosed, timeout,
                   patternStats, slowQueries, totalQueries, totalTime, received,
                   exit, result>>

\* The parser sends its next event.
ProducerSend ==
    /\ UNCHANGED outsideSlow
    /\ ppc = "running"
    /\ Len(eventChan) < ChanCap
    /\ \E e \in NextEvents :
          /\ eventChan' = Append(eventChan, e)
          /\ sent' = Append(sent, e)
    /\ UNCHANGED <<logKind, threshold, spc, ppc, chanClosed, timeout, patternStats,
                   slowQueries, totalQueries, totalTime, received, exit, result, err>>

\* The parser reaches the end of the log and closes the channel.
ProducerClose ==
    /\ UNCHANGED outsideSlow
    /\ ppc = "running"
    /\ AtEndOfLog
    /\ ppc' = "done"
    /\ chanClosed' = TRUE
    /\ UNCHANGED <<logKind, threshold, spc, sent, eventChan, timeout, patternStats,
                   slowQueries, totalQueries, totalTime, received, exit, result, err>>

\* The 30 seconds of time.After elapse.
TimerFire ==
    /\ UNCHANGED outsideSlow
    /\ spc = "loop"
    /\ ~timeout
    /\ timeout' = TRUE
    /\ UNCHANGED <<logKind, threshold, spc, ppc, sent, eventChan, chanClosed,
                   patternStats, slowQueries, totalQueries, totalTime, received,
                   exit, result, err>>

\* case event, ok := <-eventChan, with ok: a nil event is skipped, any other
\* is folded in.
RecvEvent ==
    /\ UNCHANGED outsideSlow
    /\ spc = "loop"
    /\ eventChan # <<>>
    /\ LET event == Head(eventChan)
       IN /\ eventChan' = Tail(eventChan)
          /\ received' = Append(received, event)
          /\ IF event = NilEvent
             THEN UNCHANGED <<patternStats, slowQueries, totalQueries, totalTime>>
             ELSE /\ slowQueries' = FoldSlow(slowQueries, event, threshold)
                  /\ patternStats' = FoldStats(patternStats, event)
                  /\ totalQueries' = totalQueries + 1
                  /\ totalTime' = totalTime + event.QueryTime
    /\ UNCHANGED <<logKind, threshold, spc, ppc, sent, chanClosed, timeout, exit,
                   result, err>>

\* case event, ok := <-eventChan, with !ok.
RecvClosed ==
    /\ UNCHANGED outsideSlow
    /\ spc = "loop"
    /\ eventChan = <<>>
    /\ chanClosed
    /\ spc' = "LOOP_END"
    /\ exit' = "closed"
    /\ UNCHANGED <<logKind, threshold, ppc, sent, eventChan, chanClosed, timeout,
                   patternStats, slowQueries, totalQueries, totalTime, received,
                   result, err>>

\* Mutant of RecvTimeout: the case takes the timer's value and continues.
RecvTimeoutContinues ==
    /\ UNCHANGED outsideSlow
    /\ spc = "loop"
    /\ timeout
    /\ exit' = "timeout"
    /\ UNCHANGED <<logKind, threshold, spc, ppc, sent, eventChan, chanClosed,
                   timeout, patternStats, slowQueries, totalQueries, totalTime,
                   received, result, err>>

\* case <-timeout.
RecvTimeout ==
    /\ UNCHANGED outsideSlow
    /\ spc = "loop"
    /\ timeout
    /\ spc' = "LOOP_END"
    /\ exit' = "timeout"
    /\ UNCHANGED <<logKind, threshold, ppc, sent, eventChan, chanClosed, timeout,
                   patternStats, slowQueries, totalQueries, totalTime, received,
                   result, err>>

\* LOOP_END: averages (written through the map's pointers), the two sorts,
\* the two truncations, the result.
Finalize ==
    /\ UNCHANGED outsideSlow
    /\ spc = "LOOP_END"
    /\ \E order \in MapOrders(DOMAIN patternStats) :
          result' = <<AnalysisResult(patternStats, slowQueries, totalQueries,
                                     totalTime, order)>>
    /\ patternStats' = [p \in DOMAIN patternStats |->
                            IF patternStats[p].Count > 0
                            THEN WithAverage(patternStats[p])
                            ELSE patternStats[p]]
    /\ spc' = "returned"
    /\ UNCHANGED <<logKind, threshold, ppc, sent, eventChan, chanClosed, timeout,
                   slowQueries, totalQueries, totalTime, received, exit, err>>

Next ==
    \/ Setup
    \/ ProducerSend
    \/ ProducerClose
    \/ TimerFire
    \/ RecvEvent
    \/ RecvClosed
    \/ RecvTimeout
    \/ Finalize

\* ------------------------------------------------- httplog: lines

\* A field of a line as extractField returns it: kind "missing" is the empty
\* string of a line without the field, "bad" a text no number parses from,
\* "range" a numeral too large for its type, "num" the text of the number val.
Missing == [kind |-> "missing", val |-> 0]

Bad == [kind |-> "bad", val |-> 0]

Range == [kind |-> "range", val |-> 0]

Num(n) == [kind |-> "num", val |-> n]

\* +Inf.  Every finite time of the model is far below it, and so is every
\* finite sum, so that a sum is +Inf exactly when it exceeds half of it.
PosInf == 1000000

IsInf(x) == 2 * x > PosInf

\* The value Atoi returns with its range error: the largest int.
MaxInt == 2147483647

\* strconv.ParseFloat with the error dropped: 0 with a syntax error, +Inf
\* with a range error.
ParseFloat(f) ==
    CASE f.kind = "num" -> f.val
      [] f.kind = "range" -> PosInf
      [] OTHER -> 0

\* strconv.Atoi with the error dropped: 0 with a syntax error, the largest
\* int with a range error.
Atoi(f) ==
    CASE f.kind = "num" -> f.val
      [] f.kind = "range" -> MaxInt
      [] OTHER -> 0

\* The uri: field: "" when missing, else the text, one character per element.
URIs == {<<>>, <<"/", "a">>, <<"/", "1">>, <<"/", "2">>}

ReqTimes == {Missing, Bad, Range, Num(-1), Num(3)}

Statuses == {Missing, Bad, Range}

\* A blank line: no field at all.
BlankLine == [uri |-> <<>>, reqtime |-> Missing, status |-> Missing]

\* The lines of a free log: every uri and reqtime with a status that parses,
\* every reqtime with a status that does not, and the blank line.
HttpLines ==
    [uri : URIs, reqtime : ReqTimes, status : {Num(200)}]
        \cup [uri : {<<"/", "a">>}, reqtime : {Missing, Num(3)}, status : Statuses]
        \cup {BlankLine}

\* reqtime of the i-th line of a long log.
HttpLongTime(kind, i) ==
    CASE kind = "asc" -> i
      [] kind = "desc" -> HttpLongLen + 1 - i
      [] OTHER -> ((i * 7) % 5) + 1

\* The i-th line of a long log.
HttpLongLine(kind, i) ==
    [uri |-> <<"/", "a">>, reqtime |-> Num(HttpLongTime(kind, i)), status |-> Num(200)]

\* Lines the log may hold after the ones read so far.
NextLines ==
    IF httpKind = "free"
    THEN IF Len(lines) < MaxLines THEN HttpLines ELSE {}
    ELSE IF Len(lines) < HttpLongLen THEN {HttpLongLine(httpKind, Len(lines) + 1)} ELSE {}

\* The log has no further line; strings.Split yields at least one line.
AtEndOfLines ==
    IF httpKind = "free" THEN Len(lines) >= 1 ELSE Len(lines) = HttpLongLen

\* ------------------------------------------------- httplog: patternizeURI

IsDigit(c) == c \in {"0", "1", "2", "3", "4", "5", "6", "7", "8", "9"}

\* Number of digits of u from position i on.
DigitRun(u, i) ==
    LET ends == {j \in i..(Len(u) + 1) :
                    /\ \A k \in i..(j - 1) : IsDigit(u[k])
                    /\ j = Len(u) + 1 \/ ~IsDigit(u[j])}
    IN (CHOOSE j \in ends : TRUE) - i

\* Last position of the match of /\d+(/|$) that starts at i, 0 when none.
MatchEnd(u, i) ==
    IF u[i] # "/" THEN 0
    ELSE LET n == DigitRun(u, i + 1)
         IN IF n = 0 THEN 0
            ELSE IF i + n = Len(u) THEN i + n
            ELSE IF u[i + n + 1] = "/" THEN i + n + 1
            ELSE 0

\* re.ReplaceAllString(uri, "/:id$1") from position i on: matches are taken
\* left to right and do not overlap.
RECURSIVE ReplaceAllFrom(_, _)
ReplaceAllFrom(u, i) ==
    IF i > Len(u) THEN <<>>
    ELSE LET e == MatchEnd(u, i)
         IN IF e = 0
            THEN <<u[i]>> \o ReplaceAllFrom(u, i + 1)
            ELSE <<"/", ":", "i", "d">>
                 \o (IF e > i /\ u[e] = "/" THEN <<"/">> ELSE <<>>)
                 \o ReplaceAllFrom(u, e + 1)

\* The default patternization: numeric path segments become :id.
DefaultPattern(uri) == ReplaceAllFrom(uri, 1)

\* A nil *AlpConfig.
NilConfig == [nil |-> TRUE, MatchingGroups |-> <<>>]

\* &AlpConfig{MatchingGroups: groups}
Config(groups) == [nil |-> FALSE, MatchingGroups |-> groups]

\* The patterns of the model's matching groups: two literals and a text
\* that is no regular expression (an unclosed group).
GroupPatterns == {<<"/", "a">>, <<"1">>, <<"(">>}

\* regexp.Compile(pattern) returns no error.
Compiles(pattern) == \A i \in DOMAIN pattern : pattern[i] # "("

\* r.MatchString(uri) for a literal pattern: it occurs somewhere in uri.
MatchString(pattern, uri) ==
    \E i \in 1..(Len(uri) - Len(pattern) + 1) :
        SubSeq(uri, i, i + Len(pattern) - 1) = pattern

Digits == <<"0", "1", "2", "3", "4", "5", "6", "7", "8", "9">>

\* strconv.Itoa of a natural number.
RECURSIVE Itoa(_)
Itoa(n) ==
    IF n < 10 THEN <<Digits[n + 1]>>
    ELSE Itoa(n \div 10) \o <<Digits[(n % 10) + 1]>>

\* "group_" + strconv.Itoa(i+1) + ": " + pattern, for the group at position
\* n of the list, counted from 1.
GroupLabel(n, pattern) ==
    <<"g", "r", "o", "u", "p", "_">> \o Itoa(n) \o <<":", " ">> \o pattern

\* Mutant of MatchGroupsFrom: the last group that matches decides.
MatchGroupsLast(uri, groups, n) ==
    LET m == {j \in n..Len(groups) :
                 Compiles(groups[j]) /\ MatchString(groups[j], uri)}
    IN IF m = {} THEN DefaultPattern(uri)
       ELSE LET j == CHOOSE k \in m : \A l \in m : l <= k
            IN GroupLabel(j, groups[j])

\* The loop over config.MatchingGroups from position n on, and the fall
\* back to the default patternization behind it.
RECURSIVE MatchGroupsFrom(_, _, _)
MatchGroupsFrom(uri, groups, n) ==
    IF n > Len(groups) THEN DefaultPattern(uri)
    ELSE IF ~Compiles(groups[n]) THEN MatchGroupsFrom(uri, groups, n + 1)
    ELSE IF MatchString(groups[n], uri) THEN GroupLabel(n, groups[n])
    ELSE MatchGroupsFrom(uri, groups, n + 1)

patternizeURI(uri, cfg) ==
    IF ~cfg.nil /\ Len(cfg.MatchingGroups) > 0
    THEN MatchGroupsFrom(uri, cfg.MatchingGroups, 1)
    ELSE DefaultPattern(uri)

\* ------------------------------------------------- httplog: loadAlpConfig

\* What the file system holds at the configuration paths: no readable file,
\* or the first readable file, whose bytes are YAML of an AlpConfig (the
\* groups) or are not.
NoFile == [found |-> FALSE, yaml |-> FALSE, groups |-> <<>>]

BadYaml == [found |-> TRUE, yaml |-> FALSE, groups |-> <<>>]

Yaml(groups) == [found |-> TRUE, yaml |-> TRUE, groups |-> groups]

ConfigFiles == {NoFile, BadYaml, Yaml(<<>>), Yaml(<<<<"(">>, <<"/", "a">>>>)}

\* Mutant of loadAlpConfig: bytes that are not YAML leave a configuration
\* with a matching group behind the error.
loadAlpConfigKeepsGroups(file) ==
    IF ~file.found THEN [config |-> NilConfig, err |-> "read"]
    ELSE IF ~file.yaml THEN [config |-> Config(<<<<"/", "a">>>>), err |-> "yaml"]
    ELSE [config |-> Config(file.groups), err |-> "nil"]

loadAlpConfig(file) ==
    IF ~file.found THEN [config |-> NilConfig, err |-> "read"]
    ELSE IF ~file.yaml THEN [config |-> NilConfig, err |-> "yaml"]
    ELSE [config |-> Config(file.groups), err |-> "nil"]

\* ------------------------------------------------- httplog: analyzeLog

\* &EndpointStats{StatusCodes: make(map[int]int)}
NewEndpointStats ==
    [Count |-> 0, TotalTime |-> 0, AvgTime |-> Ratio(0, 1), MaxTime |-> 0,
     StatusCodes |-> EmptyMap]

\* Mutant of CountStatus: the status is noted, not counted.
CountStatusOnce(codes, status) == MapPut(codes, status, 1)

\* s.StatusCodes[status]++
CountStatus(codes, status) ==
    MapPut(codes, status, IF status \in DOMAIN codes THEN codes[status] + 1 ELSE 1)

\* The update of a pattern's statistics with one line.
UpdateEndpoint(s, reqtime, status) ==
    [s EXCEPT !.Count = @ + 1,
              !.TotalTime = @ + reqtime,
              !.MaxTime = IF reqtime > @ THEN reqtime ELSE @,
              !.StatusCodes = CountStatus(@, status)]

\* stats after one line was folded in.
FoldLine(st, line, cfg) ==
    LET reqtime == ParseFloat(line.reqtime)
        status == Atoi(line.status)
        patternURI == patternizeURI(line.uri, cfg)
        s == IF patternURI \in DOMAIN st THEN st[patternURI] ELSE NewEndpointStats
    IN MapPut(st, patternURI, UpdateEndpoint(s, reqtime, status))

\* Mutant of EndpointAverage: the divisor is one too large.
EndpointAverageOffByOne(s) == [s EXCEPT !.AvgTime = Ratio(s.TotalTime, s.Count + 1)]

\* s.AvgTime = s.TotalTime / float64(s.Count)
EndpointAverage(s) == [s EXCEPT !.AvgTime = Ratio(s.TotalTime, s.Count)]

\* ------------------------------------------------- httplog: slow requests

\* Mutant of IsSlowRequest: the threshold is not applied.
IsSlowRequestAlways(reqtime, th) == reqtime >= th \/ reqtime < th

\* reqtime >= thresholdSeconds
IsSlowRequest(reqtime, th) == reqtime >= th

\* SlowRequest{...} of a line; the time, method and vhost fields, which are
\* copied as they are, are left out.
NewSlowRequest(line) == [URI |-> line.uri, ReqTime |-> ParseFloat(line.reqtime)]

extractSlowRequests(logLines, th) ==
    LET all == [i \in 1..Len(logLines) |-> NewSlowRequest(logLines[i])]
    IN SortSlice(SelectSeq(all, LAMBDA r : IsSlowRequest(r.ReqTime, th)), "ReqTime")

min(a, b) == IF a < b THEN a ELSE b

\* Mutant of TopSlowRequests: the tail is kept, not the head.
TopSlowRequestsTail(s) ==
    SubSeq(s, Len(s) - min(SlowRequestsLimit, Len(s)) + 1, Len(s))

\* slowRequests[:min(10, len(slowRequests))]
TopSlowRequests(s) == SubSeq(s, 1, min(SlowRequestsLimit, Len(s)))

\* ------------------------------------------------- httplog: Analyze

HttpThresholds == {0, 2}

\* The map that is encoded.
HttpResult ==
    [endpoint_stats |-> stats,
     slow_requests |-> TopSlowRequests(slowRequests),
     config_used |-> ~config.nil /\ Len(config.MatchingGroups) > 0]

\* json.MarshalIndent returns an error: a float of the result is not finite.
MarshalFails(r) ==
    \/ \E p \in DOMAIN r.endpoint_stats :
          \/ IsInf(r.endpoint_stats[p].TotalTime)
          \/ IsInf(r.endpoint_stats[p].MaxTime)
          \/ IsInf(r.endpoint_stats[p].AvgTime.num)
    \/ \E i \in DOMAIN r.slow_requests : IsInf(r.slow_requests[i].ReqTime)

HttpInit ==
    /\ httpKind \in {"free"} \cup LongVariants
    /\ config = NilConfig
    /\ configErr = "nil"
    /\ lines = <<>>
    /\ hpc = "load"
    /\ stats = EmptyMap
    /\ slowThreshold = 0
    /\ slowRequests = <<>>
    /\ httpResult = <<>>
    /\ httpErr = "nil"

\* config, err := loadAlpConfig()
HttpLoadConfig ==
    /\ UNCHANGED outsideHttp
    /\ hpc = "load"
    /\ \E file \in ConfigFiles :
          /\ config' = loadAlpConfig(file).config
          /\ configErr' = loadAlpConfig(file).err
    /\ hpc' = "fold"
    /\ UNCHANGED <<httpKind, lines, stats, slowThreshold, slowRequests,
                   httpResult, httpErr>>

\* One iteration of the loop over logLines.
HttpFold ==
    /\ UNCHANGED outsideHttp
    /\ hpc = "fold"
    /\ \E line \in NextLines :
          /\ lines' = Append(lines, line)
          /\ stats' = FoldLine(stats, line, config)
    /\ UNCHANGED <<httpKind, config, configErr, hpc, slowThreshold, slowRequests,
                   httpResult, httpErr>>

\* The loop over logLines ends.
HttpEndFold ==
    /\ UNCHANGED outsideHttp
    /\ hpc = "fold"
    /\ AtEndOfLines
    /\ hpc' = "avg"
    /\ UNCHANGED <<httpKind, config, configErr, lines, stats, slowThreshold,
                   slowRequests, httpResult, httpErr>>

\* The loop that computes the averages.
HttpAverages ==
    /\ UNCHANGED outsideHttp
    /\ hpc = "avg"
    /\ stats' = [p \in DOMAIN stats |-> EndpointAverage(stats[p])]
    /\ hpc' = "done"
    /\ UNCHANGED <<httpKind, config, configErr, lines, slowThreshold,
                   slowRequests, httpResult, httpErr>>

\* slowRequests := extractSlowRequests(lines, slowThreshold); the threshold,
\* an argument of Analyze that nothing read before, is drawn here.
HttpExtract ==
    /\ UNCHANGED outsideHttp
    /\ hpc = "done"
    /\ \E th \in HttpThresholds :
          /\ slowThreshold' = th
          /\ slowRequests' = extractSlowRequests(lines, th)
    /\ hpc' = "extracted"
    /\ UNCHANGED <<httpKind, config, configErr, lines, stats, httpResult, httpErr>>

\* The encoding of the result and the return.
HttpReturn ==
    /\ UNCHANGED outsideHttp
    /\ hpc = "extracted"
    /\ IF MarshalFails(HttpResult)
       THEN httpResult' = <<>> /\ httpErr' = "json"
       ELSE httpResult' = <<HttpResult>> /\ httpErr' = "nil"
    /\ hpc' = "returned"
    /\ UNCHANGED <<httpKind, config, configErr, lines, stats, slowThreshold,
                   slowRequests>>

HttpSpecNext ==
    \/ HttpLoadConfig
    \/ HttpFold
    \/ HttpEndFold
    \/ HttpAverages
    \/ HttpExtract
    \/ HttpReturn

\* ------------------------------------------------- patternizeURI by itself

\* The URIs of at most n characters over a slash, a digit and a letter.
UriTexts(n) == UNION {[1..k -> {"/", "1", "a"}] : k \in 0..n}

\* The lists of at most n matching groups.
GroupLists(n) == UNION {[1..k -> GroupPatterns] : k \in 0..n}

UriConfigs == {NilConfig} \cup {Config(g) : g \in GroupLists(MaxGroups)}

UriInit ==
    /\ uriIn \in UriTexts(MaxUriLen)
    /\ uriConfig \in UriConfigs
    /\ uriOut = <<>>

\* patternizeURI(uri, config)
Patternize ==
    /\ UNCHANGED outsideUri
    /\ uriOut = <<>>
    /\ uriOut' = <<patternizeURI(uriIn, uriConfig)>>
    /\ UNCHANGED <<uriIn, uriConfig>>

\* patternizeURI(pattern, config) with the pattern the first call returned.
PatternizeAgain ==
    /\ UNCHANGED outsideUri
    /\ Len(uriOut) = 1
    /\ uriOut' = Append(uriOut, patternizeURI(uriOut[1], uriConfig))
    /\ UNCHANGED <<uriIn, uriConfig>>

UriSpecNext ==
    \/ Patternize
    \/ PatternizeAgain

\* ------------------------------------------------- pprof: profiles

\* A *profile.Profile.  A function is its ID and Name (the empty sequence is
\* the empty name), a location its ID and the function IDs of its lines, a
\* sample its values and the IDs of its locations, innermost frame first.  A
\* location's ID is its position in the table.
Profile(sampleType, function, location, sample) ==
    [SampleType |-> sampleType, Function |-> function, Location |-> location,
     Sample |-> sample]

\* The function table of a small profile: the second function has a name
\* or has none.
FreeFunctions(named) ==
    <<[ID |-> 1, Name |-> <<"f">>],
      [ID |-> 2, Name |-> IF named THEN <<"g">> ELSE <<>>]>>

\* The location table of a small profile: one line of each function, two
\* lines of function 1 (an inlined call of itself), no line, and a line of
\* function 2 inlined into function 1.
FreeLocations ==
    <<[ID |-> 1, Line |-> <<1>>], [ID |-> 2, Line |-> <<2>>],
      [ID |-> 3, Line |-> <<1, 1>>], [ID |-> 4, Line |-> <<>>],
      [ID |-> 5, Line |-> <<2, 1>>]>>

FreeSamples ==
    [Value : {<<>>, <<1>>, <<100>>},
     Location : {<<>>, <<1>>, <<2>>, <<3>>, <<4>>, <<2, 1>>}]

SampleTypes == {<<>>, <<"cpu">>}

FreeProfiles ==
    {Profile(st, FreeFunctions(named), FreeLocations, ss) :
        st \in SampleTypes, named \in BOOLEAN,
        ss \in UNION {[1..k -> FreeSamples] : k \in 0..MaxSamples}}

\* The function ID of a line whose Function is nil: the line's function_id
\* is 0, or names no function of the table.
NilFunction == 0

\* A location whose last line has no function.
UnresolvedLocation == [ID |-> 6, Line |-> <<1, NilFunction>>]

\* The small profiles whose location table holds the unresolved location.
UnresolvedProfiles ==
    {Profile(<<"cpu">>, FreeFunctions(TRUE), Append(FreeLocations, UnresolvedLocation), ss) :
        ss \in UNION {[1..k -> [Value : {<<1>>}, Location : {<<>>, <<1>>, <<6>>, <<6, 1>>}]] :
                         k \in 0..MaxSamples}}

\* Value of the i-th sample of a long profile.
ProfLongValue(kind, i) ==
    CASE kind = "asc" -> i
      [] kind = "desc" -> ProfLongLen + 1 - i
      [] OTHER -> ((i * 7) % 5) + 1

\* A long profile: ProfLongLen functions, each with a location of one line
\* and a sample of that location (the first sample is called from the
\* second location); function u, if there is one, has no name.
LongProfile(kind, u) ==
    Profile(<<"cpu">>,
            [i \in 1..ProfLongLen |->
                [ID |-> i, Name |-> IF i = u THEN <<>> ELSE <<"f">> \o Itoa(i)]],
            [i \in 1..ProfLongLen |-> [ID |-> i, Line |-> <<i>>]],
            [i \in 1..ProfLongLen |->
                [Value |-> <<ProfLongValue(kind, i)>>,
                 Location |-> IF i = 1 THEN <<1, 2>> ELSE <<i>>]])

LongProfiles == {LongProfile(kind, u) : kind \in LongVariants, u \in {0, ProfLongLen}}

\* The bytes given to an operation: a profile's encoding, or bytes that
\* profile.Parse rejects.
Encoded(p) == [valid |-> TRUE, profile |-> p]

Corrupt == [valid |-> FALSE, profile |-> Profile(<<>>, <<>>, <<>>, <<>>)]

ProfInputs ==
    {Corrupt} \cup {Encoded(p) : p \in FreeProfiles \cup UnresolvedProfiles \cup LongProfiles}

\* The operations that take bytes.
ProfOps == {"Analyze", "ConvertToDetailedJSON", "GenerateTextReport"}

\* Profile.CheckValid, the part every version of the library has: samples
\* need sample types, and every sample has one value per sample type.
CheckValid(p) ==
    /\ Len(p.SampleType) = 0 => Len(p.Sample) = 0
    /\ \A i \in DOMAIN p.Sample : Len(p.Sample[i].Value) = Len(p.SampleType)

\* Some line of the location table has no function.
HasNilLine(p) ==
    \E i \in DOMAIN p.Location : \E k \in DOMAIN p.Location[i].Line :
        p.Location[i].Line[k] = NilFunction

\* ------------------------------------------------- pprof: the JSON outputs

\* The name of the first function of the table with this ID, <<>> if none.
FuncName(p, id) ==
    LET at == {i \in DOMAIN p.Function : p.Function[i].ID = id}
    IN IF at = {} THEN <<>>
       ELSE p.Function[CHOOSE i \in at : \A j \in at : i <= j].Name

InFunctionMap(p, id) == \E i \in DOMAIN p.Function : p.Function[i].ID = id

\* callStack of a location: its lines whose function is in functionMap.
CallStack(p, loc) ==
    LET ls == SelectSeq(loc.Line, LAMBDA id : InFunctionMap(p, id))
    IN [i \in 1..Len(ls) |-> FuncName(p, ls[i])]

\* Mutant of StructuredJSON: every location is listed, with or without a
\* call stack.
StructuredJSONAllLocations(p) ==
    [stackTraces |-> [i \in 1..Len(p.Location) |->
                         [id |-> p.Location[i].ID,
                          callStack |-> CallStack(p, p.Location[i])]],
     samples |-> [i \in 1..Len(p.Sample) |->
                     [locationIDs |-> p.Sample[i].Location,
                      values |-> p.Sample[i].Value]]]

\* generateStructuredJSON: the locations with a call stack, and the samples.
StructuredJSON(p) ==
    LET locs == SelectSeq(p.Location, LAMBDA loc : Len(CallStack(p, loc)) > 0)
    IN [stackTraces |-> [i \in 1..Len(locs) |->
                            [id |-> locs[i].ID, callStack |-> CallStack(p, locs[i])]],
        samples |-> [i \in 1..Len(p.Sample) |->
                        [locationIDs |-> p.Sample[i].Location,
                         values |-> p.Sample[i].Value]]]

\* DetailedProfile.MarshalJSON: the whole graph, references as IDs.
DetailedJSON(p) ==
    [sampleType |-> p.SampleType, sample |-> p.Sample, location |-> p.Location,
     function |-> p.Function]

\* ------------------------------------------------- pprof: the text report

\* The function IDs of the lines of a stack, location after location.
RECURSIVE StackLines(_, _)
StackLines(p, stack) ==
    IF stack = <<>> THEN <<>>
    ELSE p.Location[Head(stack)].Line \o StackLines(p, Tail(stack))

\* line.Function.ID is evaluated for a line without function: in the
\* aggregation every line of the stack of a sample that has a value and a
\* location, in the call paths the last line of each of its locations.
AggregationDerefsNil(p) ==
    \E i \in DOMAIN p.Sample :
        /\ Len(p.Sample[i].Value) > 0 /\ Len(p.Sample[i].Location) > 0
        /\ \E k \in DOMAIN StackLines(p, p.Sample[i].Location) :
              StackLines(p, p.Sample[i].Location)[k] = NilFunction

PathsDerefNil(p) ==
    \E i \in DOMAIN p.Sample :
        /\ Len(p.Sample[i].Value) > 0 /\ Len(p.Sample[i].Location) > 0
        /\ \E k \in DOMAIN p.Sample[i].Location :
              LET ls == p.Location[p.Sample[i].Location[k]].Line
              IN Len(ls) > 0 /\ ls[Len(ls)] = NilFunction

\* Mutant of CreditLines: a function is credited once however many lines
\* refer to it.
CreditLinesOnce(fc, ls, v) ==
    LET ids == {ls[i] : i \in DOMAIN ls}
    IN [id \in (DOMAIN fc) \cup ids |->
           IF id \in ids THEN (IF id \in DOMAIN fc THEN fc[id] ELSE 0) + v
           ELSE fc[id]]

\* funcCumulative[line.Function.ID] += value, for the lines ls in order.
RECURSIVE CreditLines(_, _, _)
CreditLines(fc, ls, v) ==
    IF ls = <<>> THEN fc
    ELSE CreditLines(MapPut(fc, Head(ls),
                            (IF Head(ls) \in DOMAIN fc THEN fc[Head(ls)] ELSE 0) + v),
                     Tail(ls), v)

\* One iteration of the loop over prof.Sample that fills funcCumulative.
CreditSample(fc, p, sample) ==
    IF Len(sample.Value) = 0 \/ Len(sample.Location) = 0 THEN fc
    ELSE CreditLines(fc, StackLines(p, sample.Location), sample.Value[1])

\* funcCumulative after the loop over prof.Sample.
FuncCumulative(p) ==
    LET f[i \in 0..Len(p.Sample)] ==
            IF i = 0 THEN EmptyMap
            ELSE CHOOSE r \in {CreditSample(fc, p, p.Sample[i]) : fc \in {f[i - 1]}} : TRUE
    IN f[Len(p.Sample)]

\* totalValue: the sum of Value[0] over the samples that have a value.
TotalValue(p) ==
    SumField([i \in 1..Len(p.Sample) |->
                 [v |-> IF Len(p.Sample[i].Value) > 0 THEN p.Sample[i].Value[1] ELSE 0]],
             "v")

\* float64(value) / float64(totalValue) * 100, 0 without a positive total.
Percent(value, total) == IF total > 0 THEN Ratio(value * 100, total) ELSE Ratio(0, 1)

\* The entries of the hotspot section for funcValues sorted: the functions
\* with a name, up to the limit.
HotspotEntries(p, sorted) ==
    LET total == IF Len(p.Sample) > 0 /\ Len(p.Sample[1].Value) > 0
                 THEN TotalValue(p) ELSE 0
        named == SelectSeq(sorted, LAMBDA fv : FuncName(p, fv.funcID) # <<>>)
        top == Truncate(named, HotspotLimit)
    IN [i \in 1..Len(top) |->
           [funcID |-> top[i].funcID, name |-> FuncName(p, top[i].funcID),
            value |-> top[i].value, percent |-> Percent(top[i].value, total)]]

\* Mutant of CallPath: the frames in the order of the locations.
RECURSIVE CallPathForward(_, _, _)
CallPathForward(p, stack, i) ==
    IF i = 0 THEN <<>>
    ELSE LET line == p.Location[stack[i]].Line
             here == IF Len(line) = 0 \/ ~InFunctionMap(p, line[Len(line)]) THEN <<>>
                     ELSE <<FuncName(p, line[Len(line)])>>
         IN CallPathForward(p, stack, i - 1) \o here

\* callPath of a sample: from the last location to the first, the name of
\* the function of the location's last line, if the table has it.
RECURSIVE CallPath(_, _, _)
CallPath(p, stack, i) ==
    IF i = 0 THEN <<>>
    ELSE LET line == p.Location[stack[i]].Line
             here == IF Len(line) = 0 \/ ~InFunctionMap(p, line[Len(line)]) THEN <<>>
                     ELSE <<FuncName(p, line[Len(line)])>>
         IN here \o CallPath(p, stack, i - 1)

\* samplePaths before the sort.
SamplePaths(p) ==
    LET with == SelectSeq(p.Sample, LAMBDA s :
                    /\ Len(s.Value) > 0
                    /\ Len(s.Location) > 0
                    /\ Len(CallPath(p, s.Location, Len(s.Location))) > 0)
    IN [i \in 1..Len(with) |->
           [value |-> with[i].Value[1],
            callPath |-> CallPath(p, with[i].Location, Len(with[i].Location))]]

\* The entries of the call path section.
PathEntries(p) ==
    LET top == Truncate(SortSlice(SamplePaths(p), "value"), PathLimit)
    IN [i \in 1..Len(top) |->
           [value |-> top[i].value, callPath |-> top[i].callPath,
            percent |-> Percent(top[i].value, TotalValue(p))]]

\* The entries of the resource section: a total per sample type that the
\* first sample has a value for.
ResourceEntries(p) ==
    LET types == {i \in DOMAIN p.SampleType : i <= Len(p.Sample[1].Value)}
    IN [i \in types |->
           [type |-> p.SampleType[i],
            total |-> SumField([k \in 1..Len(p.Sample) |->
                                   [v |-> IF i <= Len(p.Sample[k].Value)
                                          THEN p.Sample[k].Value[i] ELSE 0]], "v")]]

Section(header, entries) == [header |-> header, entries |-> entries]

NoOutput == [kind |-> "empty", body |-> <<>>]

Output(kind, body) == [kind |-> kind, body |-> body]

prof == profInput.profile

\* An operation on bytes, or generateTextReportFromProfile on a profile of
\* the caller's.
ProfInit ==
    /\ profInput \in ProfInputs
    /\ \/ profOp \in ProfOps /\ profPc = "parse"
       \/ /\ profOp = "generateTextReportFromProfile"
          /\ profInput.valid
          /\ profPc = "GenerateTextReport"
    /\ funcCumulative = EmptyMap
    /\ report = <<>>
    /\ profOut = NoOutput
    /\ profErr = "nil"

\* Mutant of ProfParse: bytes that do not parse yield an output next to the
\* error.
ProfParsePartial ==
    /\ UNCHANGED outsideProf
    /\ profPc = "parse"
    /\ \E strict \in BOOLEAN :
          IF profInput.valid /\ CheckValid(prof) /\ ~(strict /\ HasNilLine(prof))
          THEN profPc' = profOp /\ UNCHANGED <<profOut, profErr>>
          ELSE /\ profPc' = "returned"
               /\ profErr' = "pprof parsing error"
               /\ profOut' = Output("json", DetailedJSON(prof))
    /\ UNCHANGED <<profOp, profInput, funcCumulative, report>>

\* The temporary file (taken to be writable) and profile.Parse: bytes that do
\* not parse, or parse to a profile CheckValid rejects, end the operation
\* with the error and the empty string.  Whether CheckValid rejects a line
\* without function depends on the version of the library (strict).
ProfParse ==
    /\ UNCHANGED outsideProf
    /\ profPc = "parse"
    /\ \E strict \in BOOLEAN :
          IF profInput.valid /\ CheckValid(prof) /\ ~(strict /\ HasNilLine(prof))
          THEN profPc' = profOp /\ UNCHANGED <<profOut, profErr>>
          ELSE /\ profPc' = "returned"
               /\ profErr' = "pprof parsing error"
               /\ profOut' = NoOutput
    /\ UNCHANGED <<profOp, profInput, funcCumulative, report>>

\* Analyze: generateStructuredJSON and the return; line.Function.ID of a line
\* without function is a nil dereference.
ReturnStructured ==
    /\ UNCHANGED outsideProf
    /\ profPc = "Analyze"
    /\ IF HasNilLine(prof)
       THEN profPc' = "panic" /\ UNCHANGED profOut
       ELSE profOut' = Output("json", StructuredJSON(prof)) /\ profPc' = "returned"
    /\ UNCHANGED <<profOp, profInput, funcCumulative, report, profErr>>

\* ConvertToDetailedJSON: the marshaling and the return; DetailedLine's
\* MarshalJSON reads p.Function.ID as well.
ReturnDetailed ==
    /\ UNCHANGED outsideProf
    /\ profPc = "ConvertToDetailedJSON"
    /\ IF HasNilLine(prof)
       THEN profPc' = "panic" /\ UNCHANGED profOut
       ELSE profOut' = Output("json", DetailedJSON(prof)) /\ profPc' = "returned"
    /\ UNCHANGED <<profOp, profInput, funcCumulative, report, profErr>>

\* 1. Profile Information Summary (of its lines, the sample types).
WriteSummary ==
    /\ UNCHANGED outsideProf
    /\ profPc = "GenerateTextReport"
    /\ report' = <<Section("Profile Information Summary", prof.SampleType)>>
    /\ profPc' = "hotspots"
    /\ UNCHANGED <<profOp, profInput, funcCumulative, profOut, profErr>>

\* 2. Top 10 Hotspot Functions: funcCumulative, funcValues in the order the
\* range over the map yields, the sort, the list.  The aggregation reads
\* line.Function.ID of every line it credits.
WriteHotspots ==
    /\ UNCHANGED outsideProf
    /\ profPc = "hotspots"
    /\ IF AggregationDerefsNil(prof)
       THEN profPc' = "panic" /\ UNCHANGED <<funcCumulative, report>>
       ELSE /\ funcCumulative' = FuncCumulative(prof)
            /\ \E order \in MapOrders(DOMAIN FuncCumulative(prof)) :
                  LET fc == FuncCumulative(prof)
                      funcValues == [i \in DOMAIN order |->
                                        [funcID |-> order[i], value |-> fc[order[i]]]]
                  IN report' = Append(report,
                         Section("Top 10 Hotspot Functions",
                                 HotspotEntries(prof, SortSlice(funcValues, "value"))))
            /\ profPc' = "paths"
    /\ UNCHANGED <<profOp, profInput, profOut, profErr>>

\* 3. Important Call Paths.
WritePaths ==
    /\ UNCHANGED outsideProf
    /\ profPc = "paths"
    /\ IF PathsDerefNil(prof)
       THEN profPc' = "panic" /\ UNCHANGED report
       ELSE /\ report' = Append(report, Section("Important Call Paths", PathEntries(prof)))
            /\ profPc' = "resources"
    /\ UNCHANGED <<profOp, profInput, funcCumulative, profOut, profErr>>

\* 4. Resource Usage Distribution, written when the profile has a sample
\* type; prof.Sample[0] of a profile without samples is out of range.
WriteResources ==
    /\ UNCHANGED outsideProf
    /\ profPc = "resources"
    /\ IF Len(prof.SampleType) = 0
       THEN profPc' = "hints" /\ UNCHANGED report
       ELSE IF Len(prof.Sample) = 0
       THEN profPc' = "panic" /\ UNCHANGED report
       ELSE /\ profPc' = "hints"
            /\ report' = Append(report,
                   Section("Resource Usage Distribution", ResourceEntries(prof)))
    /\ UNCHANGED <<profOp, profInput, funcCumulative, profOut, profErr>>

\* Mutant of WriteHints: the hints are left out.
WriteHintsOmitted ==
    /\ UNCHANGED outsideProf
    /\ profPc = "hints"
    /\ profOut' = Output("text", report)
    /\ profPc' = "returned"
    /\ UNCHANGED <<profOp, profInput, funcCumulative, report, profErr>>

\* 5. Bottleneck Analysis Hints, four fixed lines, and the return.
WriteHints ==
    /\ UNCHANGED outsideProf
    /\ profPc = "hints"
    /\ report' = Append(report, Section("Bottleneck Analysis Hints", <<1, 2, 3, 4>>))
    /\ profOut' = Output("text", report')
    /\ profPc' = "returned"
    /\ UNCHANGED <<profOp, profInput, funcCumulative, profErr>>

ProfSpecNext ==
    \/ ProfParse
    \/ ReturnStructured
    \/ ReturnDetailed
    \/ WriteSummary
    \/ WriteHotspots
    \/ WritePaths
    \/ WriteResources
    \/ WriteHints

\* ------------------------------------------------- mcp: the MySQL tools

\* activeConnection == nil.
NilConnection ==
    [nil |-> TRUE, Host |-> "", Port |-> "", Username |-> "", Password |-> "",
     Database |-> ""]

\* &MySQLConnection{...} of the arguments of mysql_connect.
MySQLConnection(args) ==
    [nil |-> FALSE, Host |-> args.host, Port |-> args.port,
     Username |-> args.username, Password |-> args.password,
     Database |-> args.database]

\* The arguments of a mysql_connect request; a missing argument is "".
ConnectArgs ==
    [host : {"", "db"}, port : {"", "3306"}, username : {"", "u"},
     password : {"", "p"}, database : {"", "d"}]

NotConnected == "Not connected to MySQL. Please run mysql_connect first"

\* The tools that use the active connection.
QueryTools ==
    {"mysql_query", "mysql_list_databases", "mysql_list_tables", "mysql_describe_table"}

MySQLInit ==
    /\ activeConnection = NilConnection
    /\ connected = NilConnection
    /\ mysqlTool = "none"
    /\ mysqlErr = "nil"

\* handleMySQLConnect: the required arguments, the assignment of
\* activeConnection, then sql.Open and db.Ping, which succeed if the server
\* is up for these credentials.
handleMySQLConnect ==
    /\ UNCHANGED outsideMySQL
    /\ mysqlTool' = "mysql_connect"
    /\ \E args \in ConnectArgs, up \in BOOLEAN :
          IF args.host = "" \/ args.username = "" \/ args.password = ""
          THEN /\ mysqlErr' = "Host, username, and password are required"
               /\ UNCHANGED <<activeConnection, connected>>
          ELSE /\ activeConnection' = MySQLConnection(args)
               /\ IF up
                  THEN mysqlErr' = "nil" /\ connected' = MySQLConnection(args)
                  ELSE mysqlErr' = "Failed to ping MySQL server" /\ UNCHANGED connected

\* handleMySQLQuery.
handleMySQLQuery ==
    /\ UNCHANGED outsideMySQL
    /\ mysqlTool' = "mysql_query"
    /\ \E sqlQuery \in {"", "SELECT 1"}, up \in BOOLEAN :
          mysqlErr' = IF activeConnection.nil THEN NotConnected
                      ELSE IF sqlQuery = "" THEN "SQL query is required"
                      ELSE IF up THEN "nil" ELSE "Query execution error"
    /\ UNCHANGED <<activeConnection, connected>>

\* handleMySQLListDatabases.
handleMySQLListDatabases ==
    /\ UNCHANGED outsideMySQL
    /\ mysqlTool' = "mysql_list_databases"
    /\ \E up \in BOOLEAN :
          mysqlErr' = IF activeConnection.nil THEN NotConnected
                      ELSE IF up THEN "nil" ELSE "Error retrieving database list"
    /\ UNCHANGED <<activeConnection, connected>>

\* handleMySQLListTables.
handleMySQLListTables ==
    /\ UNCHANGED outsideMySQL
    /\ mysqlTool' = "mysql_list_tables"
    /\ \E database \in {"", "d"}, up \in BOOLEAN :
          mysqlErr' = IF activeConnection.nil THEN NotConnected
                      ELSE IF database = "" /\ activeConnection.Database = ""
                      THEN "Database not specified"
                      ELSE IF up THEN "nil" ELSE "Error retrieving table list"
    /\ UNCHANGED <<activeConnection, connected>>

\* handleMySQLDescribeTable.
handleMySQLDescribeTable ==
    /\ UNCHANGED outsideMySQL
    /\ mysqlTool' = "mysql_describe_table"
    /\ \E table \in {"", "t"}, up \in BOOLEAN :
          mysqlErr' = IF activeConnection.nil THEN NotConnected
                      ELSE IF table = "" THEN "Table name is required"
                      ELSE IF activeConnection.Database = ""
                      THEN "Database not specified"
                      ELSE IF up THEN "nil" ELSE "Error retrieving table details"
    /\ UNCHANGED <<activeConnection, connected>>

MySQLSpecNext ==
    \/ handleMySQLConnect
    \/ handleMySQLQuery
    \/ handleMySQLListDatabases
    \/ handleMySQLListTables
    \/ handleMySQLDescribeTable

\* ------------------------------------------------- libmcp: SSH connections

\* The environment variables that start with SSH_CONN_, as a map from the
\* rest of the name, a sequence of words and "_", to the value.  A variable
\* may be set to the empty string.
EnvKeys ==
    {<<"A", "_", "HOST">>, <<"A", "_", "USER">>, <<"A", "_", "PASS">>,
     <<"_", "HOST">>, <<"HOST">>}

Envs == UNION {[S -> {"", "v"}] : S \in SUBSET EnvKeys}

\* strings.SplitN(key, "_", 2): the parts before and after the first "_".
HasSeparator(key) == \E i \in DOMAIN key : key[i] = "_"

FirstSeparator(key) ==
    CHOOSE i \in DOMAIN key : key[i] = "_" /\ \A j \in 1..(i - 1) : key[j] # "_"

NameOf(key) == SubSeq(key, 1, FirstSeparator(key) - 1)

AttrOf(key) == SubSeq(key, FirstSeparator(key) + 1, Len(key))

\* connectionMap: the names, and attrs[attr] of a name ("" if missing).
ConnectionNames(env) == {NameOf(key) : key \in {k \in DOMAIN env : HasSeparator(k)}}

HasAttr(env, name, attr) ==
    \E key \in DOMAIN env :
        HasSeparator(key) /\ NameOf(key) = name /\ AttrOf(key) = <<attr>>

Attr(env, name, attr) ==
    IF HasAttr(env, name, attr)
    THEN env[CHOOSE key \in DOMAIN env :
                 HasSeparator(key) /\ NameOf(key) = name /\ AttrOf(key) = <<attr>>]
    ELSE ""

\* SSH_DEFAULT_USER, else USER, else "root": never empty.
DefaultUser == "root"

\* filepath.Join(homeDir, ".ssh", "id_ed25519") or its fallback.
DefaultKeyPath == "/root/.ssh/id_ed25519"

SSHConnection(name, host, port, username, password, keyPath) ==
    [Name |-> name, Host |-> host, Port |-> port, Username |-> username,
     Password |-> password, KeyPath |-> keyPath]

\* The connection loadSSHConnectionsFromEnv builds for a name with a HOST.
EnvConnection(env, name) ==
    LET password == Attr(env, name, "PASS")
        keyPath == Attr(env, name, "KEY")
    IN SSHConnection(name,
           Attr(env, name, "HOST"),
           IF Attr(env, name, "PORT") = "" THEN "22" ELSE Attr(env, name, "PORT"),
           IF HasAttr(env, name, "USER") THEN Attr(env, name, "USER") ELSE DefaultUser,
           password,
           IF password = "" /\ keyPath = "" THEN DefaultKeyPath ELSE keyPath)

\* loadSSHConnectionsFromEnv: every name with a HOST attribute is stored.
loadSSHConnectionsFromEnv(conns, env) ==
    LET loaded == {name \in ConnectionNames(env) : HasAttr(env, name, "HOST")}
    IN [name \in DOMAIN conns \cup loaded |->
           IF name \in loaded THEN EnvConnection(env, name) ELSE conns[name]]

\* registerDefaultSSHConnection: the environment, and localhost if that
\* leaves the map empty.
registerDefaultSSHConnection(conns, env) ==
    LET fromEnv == loadSSHConnectionsFromEnv(conns, env)
    IN IF DOMAIN fromEnv = {}
       THEN MapPut(fromEnv, <<"localhost">>,
                   SSHConnection(<<"localhost">>, "localhost", "22", DefaultUser, "",
                                 DefaultKeyPath))
       ELSE fromEnv

\* The arguments of RegisterSSHConnection.
RegisterArgs ==
    [name : {<<>>, <<"A">>}, host : {"", "h"}, port : {"", "2222"},
     username : {"", "u"}, password : {"", "p"}, keyPath : {"", "k"}]

SSHInit ==
    /\ sshEnv \in Envs
    /\ sshConnections = EmptyMap
    /\ sshOp = "none"
    /\ sshErr = "nil"

SSHIdle ==
    /\ sshEnv = EmptyMap
    /\ sshConnections = EmptyMap
    /\ sshOp = "none"
    /\ sshErr = "nil"

\* RegisterSSHTools: the environment is loaded when the tools are registered.
RegisterSSHTools ==
    /\ UNCHANGED outsideSSH
    /\ sshOp' = "RegisterSSHTools"
    /\ sshConnections' = loadSSHConnectionsFromEnv(sshConnections, sshEnv)
    /\ sshErr' = "nil"
    /\ UNCHANGED sshEnv

\* RegisterSSHConnection.
RegisterSSHConnection ==
    /\ UNCHANGED outsideSSH
    /\ sshOp' = "RegisterSSHConnection"
    /\ \E a \in RegisterArgs :
          IF a.name = <<>> \/ a.host = "" \/ a.username = ""
          THEN /\ sshErr' = "Name, host, and username are required"
               /\ UNCHANGED sshConnections
          ELSE IF a.password = "" /\ a.keyPath = ""
          THEN /\ sshErr' = "Please specify either a password or a private key path"
               /\ UNCHANGED sshConnections
          ELSE /\ sshConnections' =
                     MapPut(sshConnections, a.name,
                            SSHConnection(a.name, a.host,
                                          IF a.port = "" THEN "22" ELSE a.port,
                                          a.username, a.password, a.keyPath))
               /\ sshErr' = "nil"
    /\ UNCHANGED sshEnv

\* ListSSHConnections: the defaults are registered if the map is empty.
ListSSHConnections ==
    /\ UNCHANGED outsideSSH
    /\ sshOp' = "ListSSHConnections"
    /\ sshConnections' = IF DOMAIN sshConnections = {}
                         THEN registerDefaultSSHConnection(sshConnections, sshEnv)
                         ELSE sshConnections
    /\ sshErr' = "nil"
    /\ UNCHANGED sshEnv

\* ExecuteSSHCommand, with a connection name or with direct parameters; the
\* ssh process itself changes nothing here.
ExecuteSSHCommand ==
    /\ UNCHANGED outsideSSH
    /\ sshOp' = "ExecuteSSHCommand"
    /\ \E connectionName \in {<<>>, <<"A">>, <<"Z">>}, command \in {"", "ls"},
          host \in {"", "h"}, password \in {"", "p"} :
          LET conns == IF command # "" /\ connectionName # <<>>
                          /\ DOMAIN sshConnections = {}
                       THEN registerDefaultSSHConnection(sshConnections, sshEnv)
                       ELSE sshConnections
              named == connectionName # <<>>
              exists == connectionName \in DOMAIN conns
              h == IF named /\ exists THEN conns[connectionName].Host ELSE host
              u == IF named /\ exists THEN conns[connectionName].Username ELSE "u"
              pw == IF named /\ exists /\ password = ""
                    THEN conns[connectionName].Password ELSE password
              key == IF named /\ exists THEN conns[connectionName].KeyPath ELSE ""
          IN /\ sshConnections' = conns
             /\ sshErr' =
                   IF command = "" THEN "Command is required"
                   ELSE IF named /\ ~exists
                   THEN "The specified connection setting does not exist"
                   ELSE IF h = "" \/ u = "" THEN "Host and username are required"
                   ELSE IF key = "" /\ pw = ""
                   THEN "Please specify an authentication method (password or private key)"
                   ELSE "nil"
    /\ UNCHANGED sshEnv

SSHSpecNext ==
    \/ RegisterSSHTools
    \/ RegisterSSHConnection
    \/ ListSSHConnections
    \/ ExecuteSSHCommand

\* ------------------------------------------------- specifications

HttpIdle ==
    /\ httpKind = "free"
    /\ config = NilConfig
    /\ configErr = "nil"
    /\ lines = <<>>
    /\ hpc = "idle"
    /\ stats = EmptyMap
    /\ slowThreshold = 0
    /\ slowRequests = <<>>
    /\ httpResult = <<>>
    /\ httpErr = "nil"

UriIdle ==
    /\ uriIn = <<>>
    /\ uriConfig = NilConfig
    /\ uriOut = <<>>

ProfIdle ==
    /\ profOp = "Analyze"
    /\ profInput = Corrupt
    /\ profPc = "idle"
    /\ funcCumulative = EmptyMap
    /\ report = <<>>
    /\ profOut = NoOutput
    /\ profErr = "nil"

Init == SlowInit /\ HttpIdle /\ UriIdle /\ ProfIdle /\ MySQLInit /\ SSHIdle

Spec == Init /\ [][Next]_vars

\* The steps Analyze takes by itself once it can: the setup, the timer
\* firing, the select taking the timer's case, the finalization.
AnalyzeStep ==
    \/ Setup
    \/ TimerFire
    \/ RecvTimeout
    \/ Finalize

\* Scheduling of slowlog.Analyze: its own steps are taken, the timer fires,
\* and a select with the timer's case ready does not pass it over for ever.
\* The producer is under no obligation: it may stall.
FairSpec == Spec /\ WF_vars(AnalyzeStep)

SlowIdle ==
    /\ logKind = "free"
    /\ threshold = 2
    /\ spc = "returned"
    /\ ppc = "idle"
    /\ sent = <<>>
    /\ eventChan = <<>>
    /\ chanClosed = FALSE
    /\ timeout = FALSE
    /\ patternStats = EmptyMap
    /\ slowQueries = <<>>
    /\ totalQueries = 0
    /\ totalTime = 0
    /\ received = <<>>
    /\ exit = "none"
    /\ result = <<>>
    /\ err = "nil"

HttpSpecInit == SlowIdle /\ HttpInit /\ UriIdle /\ ProfIdle /\ MySQLInit /\ SSHIdle

UriSpecInit == SlowIdle /\ HttpIdle /\ UriInit /\ ProfIdle /\ MySQLInit /\ SSHIdle

ProfSpecInit == SlowIdle /\ HttpIdle /\ UriIdle /\ ProfInit /\ MySQLInit /\ SSHIdle

MySQLSpecInit == SlowIdle /\ HttpIdle /\ UriIdle /\ ProfIdle /\ MySQLInit /\ SSHIdle

SSHSpecInit == SlowIdle /\ HttpIdle /\ UriIdle /\ ProfIdle /\ MySQLInit /\ SSHInit

MySQLSpec == MySQLSpecInit /\ [][MySQLSpecNext]_vars

SSHSpec == SSHSpecInit /\ [][SSHSpecNext]_vars

ProfSpec == ProfSpecInit /\ [][ProfSpecNext]_vars

UriSpec == UriSpecInit /\ [][UriSpecNext]_vars

HttpSpec == HttpSpecInit /\ [][HttpSpecNext]_vars

\* ------------------------------------------------- slowlog: the claims

\* The events folded in: the non-nil events among evs.
Folded(evs) == SelectSeq(evs, LAMBDA e : e # NilEvent)

\* The events of pattern p among the events folded in.
EventsOf(evs, p) == SelectSeq(Folded(evs), LAMBDA e : Fingerprint(e.Query) = p)

\* The slow-query records of the events of evs that meet the threshold.
Qualifying(evs) ==
    LET q == SelectSeq(Folded(evs), LAMBDA e : e.QueryTime >= threshold)
    IN [i \in 1..Len(q) |-> NewSlowQuery(q[i])]

Occurrences(s, x) == Cardinality({i \in DOMAIN s : s[i] = x})

NonIncreasing(s, field) ==
    \A i, j \in DOMAIN s : i < j => s[i][field] >= s[j][field]

\* The statistics of the pattern table, in increasing order of pattern.
StatsList == [i \in 1..Cardinality(DOMAIN patternStats) |->
                 patternStats[Ascending(DOMAIN patternStats)[i]]]

Returned == spc = "returned" /\ result # <<>>

\* The result r holds the totals, patterns and slow queries of the events evs
\* and of no other event.
BuiltFrom(r, evs) ==
    /\ r.TotalQueries = Len(Folded(evs))
    /\ r.TotalTime = SumField(Folded(evs), "QueryTime")
    /\ \A i \in DOMAIN r.SlowestQueries :
          Occurrences(r.SlowestQueries, r.SlowestQueries[i])
              <= Occurrences(Qualifying(evs), r.SlowestQueries[i])
    /\ \A i \in DOMAIN r.TopQueryPatterns :
          LET s == r.TopQueryPatterns[i]
          IN /\ s.Count = Len(EventsOf(evs, s.Pattern))
             /\ s.Count > 0
             /\ s.TotalTime = SumField(EventsOf(evs, s.Pattern), "QueryTime")

C2_StopsAtDeadline == [][(timeout /\ ~chanClosed) => received' = received]_vars

\* C3: for every pattern of the table, minTime <= queryTime <= maxTime for
\* every event folded into that pattern so far.
C3_MinMaxBracket ==
    \A p \in DOMAIN patternStats :
        \A i \in DOMAIN EventsOf(received, p) :
            /\ patternStats[p].MinTime <= EventsOf(received, p)[i].QueryTime
            /\ EventsOf(received, p)[i].QueryTime <= patternStats[p].MaxTime

C3_Witness ==
    /\ spc = "loop"
    /\ \E p \in DOMAIN patternStats :
          /\ Len(EventsOf(received, p)) >= 2
          /\ patternStats[p].MinTime < patternStats[p].MaxTime

\* C4: slowest_queries holds only events whose queryTime is >= the threshold,
\* and is sorted non-increasing by queryTime.
C4_SlowestFilteredSorted ==
    Returned =>
        LET sq == result[1].SlowestQueries
        IN /\ \A i \in DOMAIN sq : sq[i].QueryTime >= threshold
           /\ \A i \in DOMAIN sq :
                 \E j \in DOMAIN received :
                    /\ received[j] # NilEvent
                    /\ sq[i] = NewSlowQuery(received[j])
           /\ NonIncreasing(sq, "QueryTime")

C4_Witness ==
    /\ Returned
    /\ Len(result[1].SlowestQueries) >= 2
    /\ result[1].SlowestQueries[1].QueryTime > result[1].SlowestQueries[2].QueryTime
    /\ \E j \in DOMAIN received :
          received[j] # NilEvent /\ received[j].QueryTime < threshold

\* C5: top_query_patterns is sorted non-increasing by totalTime, has at most
\* 20 entries and leaves out no pattern with a larger totalTime than one it
\* keeps; slowest_queries has at most 10 entries and leaves out no qualifying
\* event with a larger queryTime than one it keeps.
C5_TopKFinalization ==
    Returned =>
        LET top == result[1].TopQueryPatterns
            sq == result[1].SlowestQueries
            all == Qualifying(received)
        IN /\ NonIncreasing(top, "TotalTime")
           /\ Len(top) <= 20
           /\ \A p \in DOMAIN patternStats :
                 (\A i \in DOMAIN top : top[i].Pattern # p) =>
                    \A i \in DOMAIN top :
                       patternStats[p].TotalTime <= top[i].TotalTime
           /\ Len(sq) <= 10
           /\ \A j \in DOMAIN all :
                 Occurrences(sq, all[j]) < Occurrences(all, all[j]) =>
                    \A i \in DOMAIN sq : all[j].QueryTime <= sq[i].QueryTime

C5_Witness ==
    /\ Returned
    /\ Cardinality(DOMAIN patternStats) > 20
    /\ Len(result[1].TopQueryPatterns) = 20
    /\ Len(Qualifying(received)) > 10
    /\ Len(result[1].SlowestQueries) = 10
    /\ result[1].SlowestQueries[1].QueryTime > result[1].SlowestQueries[10].QueryTime

\* C6: when the whole log was consumed and holds at least one event, the
\* first entry of top_query_patterns has a max_time at least the query time
\* of the slowest query of the log.
C6_TopPatternHoldsSlowest ==
    (Returned /\ exit = "closed" /\ Folded(received) # <<>>) =>
        \A j \in DOMAIN Folded(received) :
            result[1].TopQueryPatterns[1].MaxTime >= Folded(received)[j].QueryTime

C8_OrderAndSeen ==
    /\ received \o eventChan = sent
    /\ \A p \in DOMAIN patternStats :
          LET evs == EventsOf(received, p)
          IN /\ evs # <<>>
             /\ patternStats[p].FirstSeen = evs[1].Ts
             /\ patternStats[p].LastSeen = evs[Len(evs)].Ts

C8_Witness ==
    /\ spc = "loop"
    /\ eventChan # <<>>
    /\ \E p \in DOMAIN patternStats :
          /\ Len(EventsOf(received, p)) >= 2
          /\ patternStats[p].FirstSeen > patternStats[p].LastSeen

\* ------------------------------------------------- httplog: the claims

\* The lines folded into pattern p.
LinesOf(p) == SelectSeq(lines, LAMBDA l : patternizeURI(l.uri, config) = p)

\* The parsed reqtimes of the lines folded into pattern p.
ReqTimesOf(p) == [i \in 1..Len(LinesOf(p)) |-> [t |-> ParseFloat(LinesOf(p)[i].reqtime)]]

\* C9: after all lines are folded, every pattern's avgTime is exactly its
\* totalTime / count, the mean of the reqtimes of its lines, and count is
\* not zero.
C9_AverageExact ==
    hpc = "done" =>
        \A p \in DOMAIN stats :
            /\ stats[p].Count # 0
            /\ stats[p].AvgTime.den # 0
            /\ RatEq(stats[p].AvgTime, Ratio(stats[p].TotalTime, stats[p].Count))
            /\ RatEq(stats[p].AvgTime,
                     Ratio(SumField(ReqTimesOf(p), "t"), Len(LinesOf(p))))

C9_Witness ==
    /\ hpc = "done"
    /\ \E p \in DOMAIN stats :
          /\ stats[p].Count >= 2
          /\ stats[p].TotalTime % stats[p].Count # 0

\* C10: while lines are folded and after the fold, a pattern's maxTime is the
\* running maximum: the largest reqtime among the lines folded into it.
C10_RunningMaximum ==
    \A p \in DOMAIN stats :
        /\ \E i \in DOMAIN ReqTimesOf(p) : stats[p].MaxTime = ReqTimesOf(p)[i].t
        /\ \A i \in DOMAIN ReqTimesOf(p) : stats[p].MaxTime >= ReqTimesOf(p)[i].t

HttpReturned == hpc = "returned" /\ httpResult # <<>>

\* The slow-request records of the lines whose reqtime, read as the claims
\* say (zero unless the field is a number), meets the threshold th.
QualifyingLines(th) ==
    LET q == SelectSeq(lines, LAMBDA l : ParseFloat(l.reqtime) >= th)
    IN [i \in 1..Len(q) |-> NewSlowRequest(q[i])]

\* C11: slow_requests contains only lines whose parsed reqtime is >= the
\* threshold, and is sorted non-increasing by reqtime, for every log and
\* every threshold.
C11_SlowFilteredSorted ==
    /\ hpc \in {"extracted", "returned"} =>
          /\ \A i \in DOMAIN slowRequests :
                /\ slowRequests[i].ReqTime >= slowThreshold
                /\ \E j \in DOMAIN lines : slowRequests[i] = NewSlowRequest(lines[j])
          /\ NonIncreasing(slowRequests, "ReqTime")
    /\ HttpReturned =>
          LET sr == httpResult[1].slow_requests
          IN /\ \A i \in DOMAIN sr :
                   /\ sr[i].ReqTime >= slowThreshold
                   /\ \E j \in DOMAIN lines : sr[i] = NewSlowRequest(lines[j])
             /\ NonIncreasing(sr, "ReqTime")

C11_Witness ==
    /\ HttpReturned
    /\ slowThreshold = 2
    /\ Len(httpResult[1].slow_requests) >= 2
    /\ httpResult[1].slow_requests[1].ReqTime > httpResult[1].slow_requests[2].ReqTime
    /\ \E j \in DOMAIN lines : ParseFloat(lines[j].reqtime) < slowThreshold

\* C12: slow_requests has at most 10 entries and they are the 10 slowest:
\* every qualifying line that is left out has a reqtime <= that of every
\* entry kept, and when at most 10 lines qualify all of them are returned.
C12_TenSlowest ==
    HttpReturned =>
        LET sr == httpResult[1].slow_requests
            all == QualifyingLines(slowThreshold)
        IN /\ Len(sr) <= 10
           /\ Len(all) <= 10 => Len(sr) = Len(all)
           /\ Len(all) > 10 => Len(sr) = 10
           /\ \A i \in DOMAIN sr : Occurrences(sr, sr[i]) <= Occurrences(all, sr[i])
           /\ \A j \in DOMAIN all :
                 Occurrences(sr, all[j]) < Occurrences(all, all[j]) =>
                    \A i \in DOMAIN sr : all[j].ReqTime <= sr[i].ReqTime

C12_Witness ==
    /\ HttpReturned
    /\ Len(QualifyingLines(slowThreshold)) > 10
    /\ Len(QualifyingLines(slowThreshold)) < Len(lines)
    /\ Len(httpResult[1].slow_requests) = 10
    /\ httpResult[1].slow_requests[1].ReqTime > httpResult[1].slow_requests[10].ReqTime

\* ------------------------------------------------- patternizeURI: the claims

\* The configuration holds no matching group.
NoGroups(cfg) == cfg.nil \/ Len(cfg.MatchingGroups) = 0

\* C13: without matching groups the normalization is idempotent: the
\* pattern of the pattern of a URI is the pattern of the URI.
C13_Idempotent ==
    (Len(uriOut) = 2 /\ NoGroups(uriConfig)) => uriOut[2] = uriOut[1]

\* C14: with matching groups configured the groups are tried in the order
\* of their declaration and the first one that matches the URI decides the
\* label, "group_", its index (from 1), ": " and its pattern; when no group
\* matches the result is the default normalization of the URI.
C14_FirstGroupWins ==
    (Len(uriOut) >= 1 /\ ~NoGroups(uriConfig)) =>
        LET g == uriConfig.MatchingGroups
            m == {j \in DOMAIN g : Compiles(g[j]) /\ MatchString(g[j], uriIn)}
        IN IF m = {}
           THEN uriOut[1] = DefaultPattern(uriIn)
           ELSE \E j \in m :
                   /\ \A k \in m : j <= k
                   /\ uriOut[1] = <<"g", "r", "o", "u", "p", "_", Digits[j + 1], ":", " ">> \o g[j]

C14_Witness ==
    /\ Len(uriOut) = 1
    /\ Len(uriConfig.MatchingGroups) = 2
    /\ uriConfig.MatchingGroups[1] # uriConfig.MatchingGroups[2]
    /\ \A j \in 1..2 :
          /\ Compiles(uriConfig.MatchingGroups[j])
          /\ MatchString(uriConfig.MatchingGroups[j], uriIn)
    /\ uriOut[1] = <<"g", "r", "o", "u", "p", "_", "1", ":", " ", "1">>

\* ------------------------------------------------- httplog: the claims (2)

\* C15: when the pattern configuration cannot be read or is not valid, the
\* call does not fail because of it: every line is counted under the default
\* normalization of its URI, the result is returned unless a line holds a
\* non-finite time, and config_used is false.
C15_ConfigErrorTolerated ==
    configErr # "nil" =>
        /\ DOMAIN stats = {DefaultPattern(lines[i].uri) : i \in DOMAIN lines}
        /\ hpc = "returned" =>
              /\ httpErr \in {"nil", "json"}
              /\ httpErr = "json" => \E i \in DOMAIN lines : lines[i].reqtime = Range
              /\ httpErr = "nil" =>
                    /\ httpResult # <<>>
                    /\ httpResult[1].config_used = FALSE
                    /\ httpResult[1].endpoint_stats = stats

C15_Witness ==
    /\ hpc = "returned"
    /\ configErr = "yaml"
    /\ httpResult # <<>>
    /\ \E i \in DOMAIN lines : lines[i].uri = <<"/", "a">>
    /\ \E i \in DOMAIN lines : lines[i].uri = <<"/", "1">>
    /\ DOMAIN stats = {<<"/", "a">>, <<"/", ":", "i", "d">>}

\* The value the claims give a number field: zero unless it is a number.
ZeroUnlessNumber(f) == IF f.kind = "num" THEN f.val ELSE 0

\* C16: a malformed line never aborts the aggregation: a reqtime or status
\* that is missing or does not parse counts as zero, and Analyze returns a
\* result and no error.
C16_MalformedNeverAborts ==
    /\ \A p \in DOMAIN stats :
          /\ stats[p].TotalTime =
                SumField([i \in 1..Len(LinesOf(p)) |->
                             [t |-> ZeroUnlessNumber(LinesOf(p)[i].reqtime)]], "t")
          /\ DOMAIN stats[p].StatusCodes =
                {ZeroUnlessNumber(LinesOf(p)[i].status) : i \in 1..Len(LinesOf(p))}
    /\ hpc = "returned" => httpErr = "nil" /\ httpResult # <<>>

\* ------------------------------------------------- pprof: the claims

\* C17: when the bytes are not a valid profile, each of Analyze,
\* ConvertToDetailedJSON and GenerateTextReport returns the decode error and
\* the empty output, and has written no part of a result.
C17_CorruptNoOutput ==
    (profPc # "idle" /\ ~profInput.valid) =>
        /\ profPc \in {"parse", "returned"}
        /\ report = <<>>
        /\ profOut = NoOutput
        /\ profPc = "returned" => profErr = "pprof parsing error"

C17_Witness ==
    /\ profPc = "returned"
    /\ ~profInput.valid
    /\ profOp = "ConvertToDetailedJSON"
    /\ profErr # "nil"

\* The headers of the sections of a report, in order.
Headers(r) == [i \in 1..Len(r) |-> r[i].header]

ReportReturned ==
    /\ profPc = "returned" /\ profOp = "GenerateTextReport"
    /\ profInput.valid /\ profErr = "nil"

\* C18 as stated: the report of every decoded profile consists of four
\* sections in this order: summary, hotspot functions, call paths, hints.
C18_FourSections ==
    ReportReturned =>
        Headers(profOut.body) =
            <<"Profile Information Summary", "Top 10 Hotspot Functions",
              "Important Call Paths", "Bottleneck Analysis Hints">>

\* C18 amended: every report returned consists of these sections in this
\* order: summary, hotspot functions, call paths, the resource usage
\* distribution exactly when the profile has a sample type, and the four
\* hints.
C18_SectionsInOrder ==
    ReportReturned =>
        /\ profOut.kind = "text"
        /\ Headers(profOut.body) =
              <<"Profile Information Summary", "Top 10 Hotspot Functions",
                "Important Call Paths">>
              \o (IF Len(prof.SampleType) > 0
                  THEN <<"Resource Usage Distribution">> ELSE <<>>)
              \o <<"Bottleneck Analysis Hints">>
        /\ Len(profOut.body[Len(profOut.body)].entries) = 4

C18_Witness ==
    /\ ReportReturned
    /\ Len(profOut.body) = 5
    /\ profOut.body[4].header = "Resource Usage Distribution"
    /\ Len(profOut.body[2].entries) = 2
    /\ Len(profOut.body[3].entries) = 2

\* C19: the functions are listed in non-increasing order of cumulative
\* value, at most 50 are listed, and every function left out has a
\* cumulative value <= that of every function listed.
C19_TopFunctions ==
    Len(report) >= 2 =>
        LET hs == report[2].entries
        IN /\ NonIncreasing(hs, "value")
           /\ Len(hs) <= 50
           /\ \A id \in DOMAIN funcCumulative :
                 (\A i \in DOMAIN hs : hs[i].funcID # id) =>
                    \A i \in DOMAIN hs : funcCumulative[id] <= hs[i].value

\* The lines of the call stack of sample s that refer to function id, each
\* as the pair of its location's position in the stack and its position in
\* the location.
LinesReferring(p, s, id) ==
    UNION {{<<j, k>> : k \in {k \in DOMAIN p.Location[s.Location[j]].Line :
                                 p.Location[s.Location[j]].Line[k] = id}} :
           j \in DOMAIN s.Location}

\* The sum over the samples with a value and a location of Value[0], once
\* per line that refers to function id.
Credited(p, id) ==
    SumField([i \in 1..Len(p.Sample) |->
                 [v |-> IF Len(p.Sample[i].Value) > 0 /\ Len(p.Sample[i].Location) > 0
                        THEN p.Sample[i].Value[1]
                                * Cardinality(LinesReferring(p, p.Sample[i], id))
                        ELSE 0]], "v")

\* C20: a function's cumulative value is the sum, over every sample with a
\* value and a location, of values[0] once per line of the sample's call
\* stack that refers to the function, and that is the value it is listed
\* with.
C20_CumulativePerLine ==
    Len(report) >= 2 =>
        /\ \A i \in DOMAIN prof.Function :
              LET id == prof.Function[i].ID
                  hit == \E k \in DOMAIN prof.Sample :
                            /\ Len(prof.Sample[k].Value) > 0
                            /\ LinesReferring(prof, prof.Sample[k], id) # {}
              IN IF hit
                 THEN id \in DOMAIN funcCumulative
                      /\ funcCumulative[id] = Credited(prof, id)
                 ELSE id \notin DOMAIN funcCumulative
        /\ \A i \in DOMAIN report[2].entries :
              report[2].entries[i].value = Credited(prof, report[2].entries[i].funcID)

C20_Witness ==
    /\ Len(report) >= 2
    /\ prof.Sample = <<[Value |-> <<100>>, Location |-> <<3>>]>>
    /\ funcCumulative[1] = 200
    /\ report[2].entries[1].value = 200

\* ------------------------------------------------- patternizeURI: the claims (2)

\* u has a path segment that consists only of digits: a slash at i, one or
\* more digits behind it, and behind them a slash or the end of u.
NumericSegmentAt(u, i) ==
    /\ u[i] = "/"
    /\ \E j \in (i + 1)..Len(u) :
          /\ \A k \in (i + 1)..j : IsDigit(u[k])
          /\ j = Len(u) \/ u[j + 1] = "/"

\* C22: without matching groups, no path segment of the normalized URI
\* consists only of digits, also when numeric segments are adjacent.
C22_NoNumericSegment ==
    (Len(uriOut) >= 1 /\ NoGroups(uriConfig)) =>
        \A i \in DOMAIN uriOut[1] : ~NumericSegmentAt(uriOut[1], i)

\* ------------------------------------------------- pprof: the claims (2)

\* The frames of sample s, outermost first: its locations that have lines,
\* taken from the last to the first, each as the name of the function of
\* the location's last line.
FramesOutermostFirst(p, s) ==
    LET locs == SelectSeq(s.Location, LAMBDA id : Len(p.Location[id].Line) > 0)
        n == Len(locs)
    IN [k \in 1..n |->
           LET line == p.Location[locs[n + 1 - k]].Line
           IN FuncName(p, line[Len(line)])]

\* C21: each listed call path is the frames of a sample in the reverse of
\* the sample's location order (outermost caller first) with the sample's
\* first value; the paths are in non-increasing order of that value and at
\* most 50 are listed.
C21_CallPaths ==
    Len(report) >= 3 =>
        LET ps == report[3].entries
        IN /\ NonIncreasing(ps, "value")
           /\ Len(ps) <= 50
           /\ \A i \in DOMAIN ps :
                 \E k \in DOMAIN prof.Sample :
                    /\ Len(prof.Sample[k].Value) > 0
                    /\ Len(prof.Sample[k].Location) > 0
                    /\ ps[i].value = prof.Sample[k].Value[1]
                    /\ ps[i].callPath = FramesOutermostFirst(prof, prof.Sample[k])

C21_Witness ==
    /\ Len(report) >= 3
    /\ Len(prof.Sample) > 50
    /\ Len(report[3].entries) = 50
    /\ Len(report[3].entries[1].callPath) = 2
    /\ report[3].entries[1].callPath[1] # report[3].entries[1].callPath[2]
    /\ report[3].entries[1].value > report[3].entries[50].value

\* The sum of the first value of every sample that has one.
SumOfFirstValues(p) ==
    SumField([i \in 1..Len(p.Sample) |->
                 [v |-> IF p.Sample[i].Value = <<>> THEN 0 ELSE Head(p.Sample[i].Value)]],
             "v")

C24_UnresolvedTolerated ==
    (/\ profOp \in {"Analyze", "GenerateTextReport"}
     /\ profInput.valid /\ CheckValid(prof) /\ HasNilLine(prof)) =>
        profPc # "panic" /\ profErr = "nil"

\* C25: GenerateTextReport never crashes on a decoded profile, in particular
\* not on one that declares sample types and has no samples.
C25_ReportNeverCrashes ==
    (/\ profOp = "GenerateTextReport"
     /\ profInput.valid /\ CheckValid(prof) /\ ~HasNilLine(prof)) =>
        profPc # "panic"

\* The lines of a location that the function lookup resolves.
ResolvedLines(p, loc) ==
    SelectSeq(loc.Line, LAMBDA id : \E f \in DOMAIN p.Function : p.Function[f].ID = id)

\* C26: in the output of Analyze a location is listed in stackTraces exactly
\* if at least one of its lines resolves through the function lookup; every
\* entry has a non-empty callStack, which holds the resolved lines of the
\* location in their original order.
C26_StackTraces ==
    (profOp = "Analyze" /\ profPc = "returned" /\ profErr = "nil") =>
        LET st == profOut.body.stackTraces
        IN /\ \A i \in DOMAIN prof.Location :
                 (ResolvedLines(prof, prof.Location[i]) # <<>>)
                    <=> (\E j \in DOMAIN st : st[j].id = prof.Location[i].ID)
           /\ \A j \in DOMAIN st :
                 /\ st[j].callStack # <<>>
                 /\ \A j2 \in DOMAIN st : st[j2].id = st[j].id => j2 = j
                 /\ \E i \in DOMAIN prof.Location :
                       /\ prof.Location[i].ID = st[j].id
                       /\ LET ls == ResolvedLines(prof, prof.Location[i])
                          IN /\ Len(st[j].callStack) = Len(ls)
                             /\ \A k \in DOMAIN ls :
                                   st[j].callStack[k] = FuncName(prof, ls[k])

C26_Witness ==
    /\ profOp = "Analyze" /\ profPc = "returned" /\ profErr = "nil"
    /\ Len(prof.Location) = 5
    /\ Len(prof.Location[4].Line) = 0
    /\ Len(profOut.body.stackTraces) = 4
    /\ profOut.body.stackTraces[4].id = 5
    /\ profOut.body.stackTraces[4].callStack = <<<<"g">>, <<"f">>>>

\* ------------------------------------------------- slowlog: the claims (2)

\* C27: whenever Analyze has returned a result, the parser it started has
\* finished as well; after a return on the deadline no parser is left
\* sending on the event channel.
C27_ProducerFinished ==
    Returned => ppc = "done"

\* ------------------------------------------------- httplog: the claims (3)

\* The sum of count over the patterns in keys.
RECURSIVE TotalCount(_)
TotalCount(keys) ==
    IF keys = {} THEN 0
    ELSE LET k == CHOOSE k \in keys : TRUE
         IN stats[k].Count + TotalCount(keys \ {k})

\* The sum of the counts of a statusCodes map.
StatusTotal(codes) ==
    SumField([i \in 1..Cardinality(DOMAIN codes) |->
                 [n |-> codes[Ascending(DOMAIN codes)[i]]]], "n")

\* C28: every line read, blank and malformed ones too, is folded into exactly
\* one pattern: each line's pattern has statistics, a pattern's count is the
\* number of lines folded into it, the counts add up to the number of lines,
\* and a pattern's statusCodes counts add up to its count.
C28_EveryLineCounted ==
    /\ TotalCount(DOMAIN stats) = Len(lines)
    /\ \A i \in DOMAIN lines : patternizeURI(lines[i].uri, config) \in DOMAIN stats
    /\ \A p \in DOMAIN stats :
          /\ stats[p].Count = Len(LinesOf(p))
          /\ StatusTotal(stats[p].StatusCodes) = stats[p].Count

C28_Witness ==
    /\ hpc = "avg"
    /\ Len(lines) = 2
    /\ lines[1] = BlankLine
    /\ lines[2].reqtime = Bad
    /\ lines[2].uri = <<>>
    /\ \E p \in DOMAIN stats :
          stats[p].Count = 2 /\ Cardinality(DOMAIN stats[p].StatusCodes) = 2

\* ------------------------------------------------- mcp: the claims

\* C29: the active connection is set only by a mysql_connect that succeeds
\* (it is the connection of the last successful one, and a failing
\* mysql_connect leaves it unchanged), and while no mysql_connect has
\* succeeded the four tools that use it fail with "Not connected to MySQL".
C29_ActiveOnlyAfterSuccess ==
    /\ activeConnection = connected
    /\ (connected.nil /\ mysqlTool \in QueryTools) => mysqlErr = NotConnected

\* ------------------------------------------------- libmcp: the claims

\* C30: every connection of the registry has a non-empty name, host,
\* username and port, and a password or a key path.
C30_RegistryWellFormed ==
    \A name \in DOMAIN sshConnections :
        /\ name # <<>>
        /\ sshConnections[name].Name # <<>>
        /\ sshConnections[name].Host # ""
        /\ sshConnections[name].Username # ""
        /\ sshConnections[name].Port # ""
        /\ sshConnections[name].Password # "" \/ sshConnections[name].KeyPath # ""

====
